---- MODULE Spec2Model ----
(***************************************************************************)
(* Scrape orchestration and client polling of ai_job_assistant.            *)
(*                                                                         *)
(* Client side (from the source): the Jobs component of                    *)
(* src/unnamed/part_002 (handleGetRelevantJobs, its poll closure, the      *)
(* score-refresh interval, the unmount cleanup) and the API client of      *)
(* src/ai_job_frontend/src/_lib/backendApi.ts.                             *)
(*                                                                         *)
(* Server side: the FastAPI backend is not part of the sources; the Status *)
(* Register and the Scrape Orchestrator are modelled from spec.md 4.1/4.2. *)
(***************************************************************************)
EXTENDS Integers, Sequences, FiniteSets, TLC

\* ------------------------------------------------------------------ bounds

\* Invocations of handleGetRelevantJobs (clicks that pass the resume check).
MaxTriggers == 2
\* Date.now() - start is followed in steps of TickMs, up to MaxTicks steps.
MaxTicks == 2
\* Callbacks of one score-refresh interval that the model follows.
MaxScoreRefreshes == 7
\* The largest HTTP status code a response is drawn with.
MaxStatus == 599
\* Source Adapters configured in the Aggregator.
NumAdapters == 3
\* Source URLs an adapter can return; an adapter returns each at most once.
MaxUrls == 2
\* Scrape runs of the pipeline on its own.
MaxRuns == 2
\* Attempts of the Scoring Dispatcher on one posting.
MaxAttempts == 2

\* Rows of the jobs table.
MaxJobs == 2
\* Wall-clock instants that new Date() can return.
MaxClock == 2
Triggers == 1..MaxTriggers

\* --------------------------------------------------------------- constants

\* part_002:277
POLL_TIMEOUT_MS == 15 * 60 * 1000
\* The granularity of elapsed time: half the poll ceiling.
TickMs == POLL_TIMEOUT_MS \div 2
\* scoreRefreshes > 6 ends the interval (part_002:399).
SCORE_REFRESH_LIMIT == 6
\* setInterval(..., 10000) (part_002:408).
SCORE_REFRESH_MS == 10000
\* idleCount >= 3 ends the loop (part_002:416).
IDLE_LIMIT == 3
\* scoreRefreshIntervalRef.current === null
NoInterval == 0

States == {"idle", "processing", "finished", "failed"}

\* relevantError messages
ErrNone == "null"
ErrResume == "Upload a resume in your profile first to use this feature."
ErrSignIn == "Please sign in again."
ErrTimeout == "Scraping is taking longer than expected. Try again in a moment."
ErrFailed == "Scraping failed. No jobs could be loaded (e.g. the job site may have blocked the request). Try again later."
ErrReset == "Scrape status was reset. Click the button again to start a new scrape."
\* e.message of the error thrown by postScrapeMyJobs (part_002:434)
ErrThrown == "e.message"

\* A nullable timestamp of the register: null, or set to the wall-clock time.
NullTime == "null"
WallClock == "timestamp"

\* A fetch outcome: nothing yet, an HTTP response, or a network failure.
NoResponse == [kind |-> "none", status |-> 0]
Http(code) == [kind |-> "http", status |-> code]
NetError == [kind |-> "neterr", status |-> 0]

VARIABLES
    \* ---- server (spec.md 3, 4.1, 4.2)
    reg,            \* ScrapeStatus of the user: [state, started_at, finished_at]
    run,            \* number of Aggregator runs launched and not yet ended
    \* ---- Jobs component (part_002:280-287)
    hasResume,
    mounted,
    isSyncing,
    relevantError,
    cancelledRef,
    scoreRefreshIntervalRef,
    jobs,           \* the postings displayed: initialJobs, or the last list fetched
    \* ---- one closure per handleGetRelevantJobs invocation
    trig,           \* [pc, res, elapsed, idleCount, broken]
    \* ---- one timer per setInterval call (the interval made by trigger i)
    interval,       \* [live, scoreRefreshes, delay]
    \* ---- observations of what each invocation did
    obs,            \* [res, polled, idleRun, pollFetches, refetches, analyze, analysis, made, outcome]
    \* ---- one call of an API client function, taken on its own
    call,           \* [response, result]
    \* ---- the scrape pipeline of one user, taken on its own (spec.md 4.2-4.4)
    results,        \* the AdapterResult each Source Adapter produces
    arrived,        \* the adapters that have returned in this run, in order
    store,          \* the persisted postings: a sequence of rows
    scoring,        \* per source URL: the Scoring Dispatcher's work on the user's posting
    runs,           \* runs started
    \* ---- which run is whose (spec.md 4.2: one run per accepted start-scrape)
    epoch,          \* [serial, of]: the runs this component started, and each invocation's
    \* ---- the tracking actions on the jobs table, taken on their own
    table,          \* the rows of the jobs table, by id
    page,           \* the page that is open: Jobs (JobDisplay) or JobTracker
    view,           \* the page's local jobs state: [status, applied_at] of each posting listed
    act,            \* per handler: [pc, job, newStatus, uid, sent]
    clock           \* what new Date() returns

serverVars == <<reg, run>>
compVars == <<hasResume, mounted, isSyncing, relevantError, cancelledRef, scoreRefreshIntervalRef,
             jobs>>
clientVars == <<compVars, trig, interval, obs>>
apiVars == <<call>>
\* The variables that the poller's specification leaves alone.
pipelineVars == <<results, arrived, store, scoring, runs>>
trackVars == <<table, page, view, act, clock>>
otherSpecVars == <<apiVars, pipelineVars, epoch, trackVars>>
vars == <<serverVars, clientVars, otherSpecVars>>

\* ================================================================ API client

\* backendApi.ts:38-44  fetch(`${getBaseUrl()}/data/scrape-my-jobs`, {method: "POST"})
postScrapeMyJobsRequest == [method |-> "POST", path |-> "/data/scrape-my-jobs"]

\* backendApi.ts:75-78  fetch(`${getBaseUrl()}/data/scrape-status`), a GET
getScrapeStatusRequestPosts == [method |-> "POST", path |-> "/data/scrape-my-jobs"]
getScrapeStatusRequest == [method |-> "GET", path |-> "/data/scrape-status"]

\* backendApi.ts:15-23: what a call of an async API client function settles to.
NotCalled == [settled |-> "none", message |-> ""]
Pending == [settled |-> "pending", message |-> ""]
Resolved == [settled |-> "resolved", message |-> ""]
Rejected(message) == [settled |-> "rejected", message |-> message]

\* backendApi.ts:16-19, 20: the message of the error that a failed fetch throws,
\* and of the error thrown on 503.
FailedToFetch == "Failed to fetch"
AnalysisNotConfigured == "AI analysis not configured."

\* backendApi.ts:15-23  postAnalyzeMyJobs, given the outcome r of its fetch.
postAnalyzeMyJobsWithout503(r) ==
    IF r.kind = "neterr" THEN Rejected(FailedToFetch)
    ELSE IF r.status # 202 THEN Rejected("Analyze jobs: " \o ToString(r.status))
    ELSE Resolved
postAnalyzeMyJobs(r) ==
    IF r.kind = "neterr" THEN Rejected(FailedToFetch)
    ELSE IF r.status = 503 THEN Rejected(AnalysisNotConfigured)
    ELSE IF r.status # 202 THEN Rejected("Analyze jobs: " \o ToString(r.status))
    ELSE Resolved

\* No call of an API client function is being followed.
NoCall == [response |-> NoResponse, result |-> Pending]

\* ============================================= pipeline data (spec.md 3, 4.3)

Adapters == 1..NumAdapters
URLs == 1..MaxUrls

\* spec.md 3 AdapterResult: a finite sequence of raw postings (here their source
\* URLs), or a failure tagged with the source; a timeout is the failure of an
\* adapter that exceeded its individual timeout.
Ok(urls) == [kind |-> "ok", urls |-> urls]
Failure == [kind |-> "failure", urls |-> << >>]
Timeout == [kind |-> "timeout", urls |-> << >>]
UrlSeqs == {q \in UNION {[1..n -> URLs] : n \in 0..MaxUrls} :
              \A i, j \in DOMAIN q : q[i] = q[j] => i = j}
AdapterResults == {Failure, Timeout} \cup {Ok(q) : q \in UrlSeqs}

\* spec.md 3 JobPosting: identity (owner, source URL), descriptive fields,
\* ai_analysis, tracking status and applied_at.
User == "user"
OtherUser == "other user"
NullStatus == "null"
NoAnalysis == "absent"
Analysis == "analysis"
\* The descriptive fields a posting had before the first run.
OldDescription == 0
Posting(owner, url, descr) ==
    [owner |-> owner, url |-> url, descr |-> descr, status |-> NullStatus,
     applied_at |-> NullTime, ai_analysis |-> NoAnalysis]

\* The rows of a store with a given identity.
Rows(st, owner, url) == {i \in DOMAIN st : st[i].owner = owner /\ st[i].url = url}
RowsOf(st, owner) == {i \in DOMAIN st : st[i].owner = owner}

\* The Scoring Dispatcher's work on a posting.
NotQueued == [state |-> "none", attempts |-> 0]
Queued(n) == [state |-> "queued", attempts |-> n]
Scored == [state |-> "scored", attempts |-> 0]
Abandoned == [state |-> "unscored", attempts |-> 0]

\* The stores a user's first run can find: empty, or with a posting of the user
\* and one of another user, both for the first source URL.
PriorStores ==
    {<< >>,
     <<[Posting(User, 1, OldDescription) EXCEPT !.status = "saved"],
       Posting(OtherUser, 1, OldDescription)>>}

\* The pipeline before any run, as the poller's specification leaves it.
PipelineAtRest ==
    /\ results = [a \in Adapters |-> Timeout]
    /\ arrived = << >>
    /\ store = << >>
    /\ scoring = [u \in URLs |-> NotQueued]
    /\ runs = 0

\* ========================================================= the jobs table

JobIds == 1..MaxJobs
\* types/jobs.ts: applied_at and updated_at are null or an ISO instant.
NoTime == 0
NoUser == "no user"
\* part_002:7  STATUS_ORDER
STATUS_ORDER == {"saved", "applied", "interviewing", "offer", "rejected"}

\* types/jobs.ts JobListing as stored: id, user_id, a descriptive field (title),
\* ai_analysis and the tracking fields.
Row(id, owner, status, analysis) ==
    [id |-> id, user_id |-> owner, title |-> id, ai_analysis |-> analysis,
     status |-> status, applied_at |-> NoTime, updated_at |-> NoTime]

\* .eq(column, value)...: the rows an update applies to.
Matches(row, filters) == \A f \in DOMAIN filters : row[f] = filters[f]
\* supabaseClient.from("jobs").update(payload).eq(...): the columns named in the
\* payload are written on the rows that match every filter.
update(tbl, payload, filters) ==
    [i \in DOMAIN tbl |->
        IF Matches(tbl[i], filters)
        THEN [f \in DOMAIN tbl[i] |-> IF f \in DOMAIN payload THEN payload[f] ELSE tbl[i][f]]
        ELSE tbl[i]]

\* JobDisplay.tsx:40-41, 68-69, part_002:37-38  .eq("id", job.id).eq("user_id", uid)
eqIdOnly(id, uid) == [id |-> id]
eqIdAndUser(id, uid) == [id |-> id, user_id |-> uid]

\* JobDisplay.tsx:35-39
handleDidApplyYesUpdate(now) == [status |-> "applied", applied_at |-> now, updated_at |-> now]
\* JobDisplay.tsx:64-67
handleSaveClickUpdate(now) == [status |-> "saved", updated_at |-> now]
\* part_002:36
handleStatusChangeUpdate(newStatus, now) == [status |-> newStatus, updated_at |-> now]

\* part_002:316-318
handleMarkSaved(prev, updated) ==
    [j \in DOMAIN prev |->
        IF j = updated.id THEN [prev[j] EXCEPT !.status = updated.status] ELSE prev[j]]
\* part_002:320-322
handleMarkApplied(prev, updated) ==
    [j \in DOMAIN prev |->
        IF j = updated.id
        THEN [prev[j] EXCEPT !.status = updated.status, !.applied_at = updated.applied_at]
        ELSE prev[j]]
\* part_002:126-128  JobTracker.handleStatusChange
onStatusChange(prev, jobId, newStatus) ==
    [j \in DOMAIN prev |-> IF j = jobId THEN [prev[j] EXCEPT !.status = newStatus] ELSE prev[j]]

\* The handlers of the tracking actions and the page each belongs to.
Handlers == {"handleSaveClick", "handleDidApplyYes", "handleStatusChange"}
PageOf(k) == IF k = "handleStatusChange" THEN "JobTracker" ELSE "Jobs"
NoAct == [pc |-> "idle", job |-> 0, newStatus |-> NullStatus, uid |-> NoUser, sent |-> NoTime]

\* The jobs table when no tracking action is followed.
TrackAtRest ==
    /\ table = [i \in JobIds |-> Row(i, User, NullStatus, NoAnalysis)]
    /\ page = "Jobs"
    /\ view = [i \in JobIds |-> [status |-> NullStatus, applied_at |-> NoTime]]
    /\ act = [k \in Handlers |-> NoAct]
    /\ clock = 1

\* ==================================================================== server

\* spec.md 4.1: a transition to processing is allowed from idle, finished, failed.
TransitionAllowedAlways(s) == TRUE
TransitionAllowed(s) == s \in {"idle", "finished", "failed"}

\* spec.md 4.2 start_scrape: one atomic check-and-set; on success the Aggregator
\* is launched. The result is the HTTP status of spec.md 6 (202 or conflict).
start_scrape_status == IF TransitionAllowed(reg.state) THEN 202 ELSE 409

\* spec.md 3: the register of a run that has just started: started_at is
\* stamped and the finished_at of the run before it is gone.
StartedStatusKeepsFinish == [reg EXCEPT !.state = "processing", !.started_at = WallClock]
StartedStatus == [state |-> "processing", started_at |-> WallClock, finished_at |-> NullTime]

start_scrape_effect ==
    IF TransitionAllowed(reg.state)
    THEN /\ reg' = StartedStatus
         /\ run' = run + 1
    ELSE UNCHANGED <<reg, run>>

\* spec.md 6: the operations at the process boundary. Only start-scrape writes
\* the register; scrape-status is a read of it.
StartScrapeRoute == [method |-> "POST", path |-> "/data/scrape-my-jobs"]
serve(request) ==
    IF request = StartScrapeRoute
    THEN start_scrape_effect
    ELSE UNCHANGED <<reg, run>>

\* spec.md 4.2: an accepted start-scrape launches one Aggregator run. The runs
\* launched for this component are numbered; of[t] is the run launched by the
\* request of invocation t.
NoRuns == [serial |-> 0, of |-> [t \in Triggers |-> 0]]
Launched(t) == [serial |-> epoch.serial + 1,
                of |-> [epoch.of EXCEPT ![t] = epoch.serial + 1]]

\* POST start-scrape sent by invocation t of this component.
StartScrape(t) ==
    /\ trig[t].pc = "postScrape"
    /\ trig[t].res = NoResponse
    /\ trig' = [trig EXCEPT ![t].res = Http(start_scrape_status)]
    /\ serve(postScrapeMyJobsRequest)
    /\ epoch' = IF start_scrape_status = 202 THEN Launched(t) ELSE epoch
    /\ UNCHANGED <<compVars, interval, obs>>
    /\ UNCHANGED <<apiVars, pipelineVars, trackVars>>

\* The request does not reach the Orchestrator, or is refused before it
\* (transport failure, 401, 500): the register is not touched.
StartScrapeFails(t) ==
    /\ trig[t].pc = "postScrape"
    /\ trig[t].res = NoResponse
    /\ \E r \in {NetError, Http(500)} : trig' = [trig EXCEPT ![t].res = r]
    /\ UNCHANGED <<serverVars, compVars, interval, obs>>
    /\ UNCHANGED otherSpecVars

\* POST start-scrape for the same user from another client (another tab).
OtherStartScrape ==
    /\ serve(StartScrapeRoute)
    /\ UNCHANGED clientVars
    /\ UNCHANGED otherSpecVars

\* spec.md 4.2: on Aggregator completion the run ends finished or failed and
\* finished_at is stamped.
AggregatorComplete(outcome) ==
    /\ run > 0
    /\ reg.state = "processing"
    /\ reg' = [reg EXCEPT !.state = outcome, !.finished_at = WallClock]
    /\ run' = run - 1
    /\ UNCHANGED clientVars
    /\ UNCHANGED otherSpecVars

\* spec.md 4.2 edge case: the Orchestrator process dies mid-run; the register
\* is left at processing.
OrchestratorCrash ==
    /\ run > 0
    /\ run' = run - 1
    /\ UNCHANGED <<reg, clientVars>>
    /\ UNCHANGED otherSpecVars

\* spec.md 4.1 idle-reset (also the manual reset of a stale processing state).
IdleReset ==
    /\ reg.state = "processing"
    /\ reg' = [state |-> "idle", started_at |-> NullTime, finished_at |-> NullTime]
    /\ run' = 0
    /\ UNCHANGED clientVars
    /\ UNCHANGED otherSpecVars

\* res.ok
IsOk(code) == code >= 200 /\ code <= 299

\* backendApi.ts postScrapeMyJobs: throws on a failed fetch, on !res.ok and on
\* any status other than 202.
postScrapeMyJobsThrowsOnNetOnly(r) == r.kind = "neterr"
postScrapeMyJobsThrows(r) ==
    \/ r.kind = "neterr"
    \/ ~IsOk(r.status)
    \/ r.status # 202

\* backendApi.ts getScrapeStatus: throws on a failed fetch and on !res.ok,
\* otherwise returns the body.
getScrapeStatusThrows(r) ==
    \/ r.kind = "neterr"
    \/ ~IsOk(r.status)

\* ============================================================ Jobs component

\* elapsed is Date.now() - start; broken tells whether the loop, while it runs,
\* has had IDLE_LIMIT - 1 idle samples in a row followed by a processing one.
NewTrig == [pc |-> "unused", res |-> NoResponse, elapsed |-> 0, idleCount |-> 0,
            broken |-> FALSE]
\* An invocation that has returned: its closure is no longer reachable.
Returned == [pc |-> "done", res |-> NoResponse, elapsed |-> 0, idleCount |-> 0,
             broken |-> FALSE]
NewInterval == [live |-> FALSE, scoreRefreshes |-> 0, delay |-> 0]
\* What an invocation did: the response its start-scrape request got, whether it
\* issued a status request, the consecutive idle samples it has just handled,
\* its postings fetches from poll and from its interval, whether it sent the
\* analyze request and what that call settled to, whether it called setInterval,
\* and how it ended.
NewObs == [res |-> NoResponse, polled |-> FALSE, idleRun |-> 0, pollFetches |-> 0,
           refetches |-> 0, analyze |-> FALSE, analysis |-> NotCalled, made |-> FALSE,
           outcome |-> "none"]

\* part_002:372  Date.now() - start >= POLL_TIMEOUT_MS
TimedOutStrict(elapsed) == elapsed > POLL_TIMEOUT_MS
TimedOut(elapsed) == elapsed >= POLL_TIMEOUT_MS

\* part_002:416  idleCount >= 3
IdleAnomalyLate(idleCount) == idleCount > IDLE_LIMIT
IdleAnomaly(idleCount) == idleCount >= IDLE_LIMIT

\* part_002:413-424: idleCount after a sample that is neither failed nor
\* finished: incremented by an idle sample, reset to zero by any other.
nextIdleCountNeverResets(status, idleCount) ==
    IF status = "idle" THEN idleCount + 1 ELSE idleCount
nextIdleCount(status, idleCount) ==
    IF status = "idle" THEN idleCount + 1 ELSE 0

\* part_002:399  scoreRefreshes > 6
RefreshesExhaustedLate(scoreRefreshes) == scoreRefreshes > SCORE_REFRESH_LIMIT + 1
RefreshesExhausted(scoreRefreshes) == scoreRefreshes > SCORE_REFRESH_LIMIT

\* The reads of cancelledRef.current at the suspension points of poll.
CancelledIgnored == FALSE
\* part_002:368 (start of an iteration)
CancelledAtIteration == cancelledRef
\* part_002:378 (after the status request)
CancelledAfterStatus == cancelledRef
\* part_002:392 (after the postings fetch of the finished branch)
CancelledAfterFetch == cancelledRef
\* part_002:426 (after the inter-poll sleep)
CancelledAfterSleep == cancelledRef
\* part_002:399 (in the score-refresh callback)
CancelledAtRefresh == cancelledRef

\* part_002:281, 331-348: the postings displayed. fetchJobsFromDb replaces
\* initialJobs by the list it read.
initialJobs == "initialJobs"
fetchJobsFromDb == "fetched"

\* poll() returns: the invocation is over with the given outcome.
return(t, ob, outcome) ==
    /\ trig' = [trig EXCEPT ![t] = Returned]
    /\ obs' = [obs EXCEPT ![t] = [ob EXCEPT !.outcome = outcome]]

\* part_002:367-377: poll() from its first line to the status request. tr is
\* the closure and ob the observations as the caller leaves them, syncing is
\* isSyncing as the caller leaves it.
pollIterationSamplesFirst(t, tr, ob, syncing) ==
    IF CancelledAtIteration
    THEN /\ isSyncing' = FALSE
         /\ relevantError' = relevantError
         /\ return(t, ob, "cancelled")
    ELSE /\ isSyncing' = syncing
         /\ relevantError' = relevantError
         /\ trig' = [trig EXCEPT ![t] = [tr EXCEPT !.pc = "awaitStatus"]]
         /\ obs' = [obs EXCEPT ![t] = [ob EXCEPT !.polled = TRUE]]
pollIteration(t, tr, ob, syncing) ==
    IF CancelledAtIteration
    THEN /\ isSyncing' = FALSE
         /\ relevantError' = relevantError
         /\ return(t, ob, "cancelled")
    ELSE IF TimedOut(tr.elapsed)
    THEN /\ relevantError' = ErrTimeout
         /\ isSyncing' = FALSE
         /\ return(t, ob, "timeout")
    ELSE \* getScrapeStatus(session.access_token)
         /\ isSyncing' = syncing
         /\ relevantError' = relevantError
         /\ trig' = [trig EXCEPT ![t] = [tr EXCEPT !.pc = "awaitStatus"]]
         /\ obs' = [obs EXCEPT ![t] = [ob EXCEPT !.polled = TRUE]]

\* part_002:350-358: the click handler up to the session request. The button
\* is disabled while isSyncing (part_002:464).
handleGetRelevantJobs(t) ==
    /\ mounted
    /\ ~isSyncing
    /\ trig[t].pc = "unused"
    /\ \A u \in Triggers : u < t => trig[u].pc # "unused"
    /\ IF ~hasResume
       THEN /\ relevantError' = ErrResume
            /\ UNCHANGED <<cancelledRef, trig>>
       ELSE /\ cancelledRef' = FALSE
            /\ relevantError' = ErrNone
            /\ trig' = [trig EXCEPT ![t].pc = "getSession"]
    /\ UNCHANGED <<serverVars, hasResume, mounted, isSyncing,
                   scoreRefreshIntervalRef, interval, obs>>
    /\ UNCHANGED jobs
    /\ UNCHANGED otherSpecVars

\* part_002:358-363: getSession resolves; without an access token the handler
\* returns, otherwise the start-scrape request is sent.
getSessionResolved(t) ==
    /\ trig[t].pc = "getSession"
    /\ \E hasToken \in BOOLEAN :
         IF ~hasToken
         THEN /\ relevantError' = ErrSignIn
              /\ return(t, obs[t], "signin")
         ELSE /\ relevantError' = relevantError
              /\ trig' = [trig EXCEPT ![t].pc = "postScrape", ![t].res = NoResponse]
              /\ obs' = obs
    /\ UNCHANGED <<serverVars, hasResume, mounted, isSyncing, cancelledRef,
                   scoreRefreshIntervalRef, interval>>
    /\ UNCHANGED jobs
    /\ UNCHANGED otherSpecVars

\* part_002:363-366, 432-440: postScrapeMyJobs settles. A throw goes to the
\* catch block; otherwise isSyncing is set and poll() runs to its first await.
postScrapeResolved(t) ==
    /\ trig[t].pc = "postScrape"
    /\ trig[t].res # NoResponse
    /\ IF postScrapeMyJobsThrows(trig[t].res)
       THEN /\ relevantError' = IF ~cancelledRef THEN ErrThrown ELSE relevantError
            /\ isSyncing' = FALSE
            /\ return(t, [obs[t] EXCEPT !.res = trig[t].res], "rejected")
       ELSE pollIteration(t, [trig[t] EXCEPT !.res = NoResponse, !.elapsed = 0,
                                             !.idleCount = 0],
                          [obs[t] EXCEPT !.res = trig[t].res], TRUE)
    /\ UNCHANGED <<serverVars, hasResume, mounted, cancelledRef,
                   scoreRefreshIntervalRef, interval>>
    /\ UNCHANGED jobs
    /\ UNCHANGED otherSpecVars

\* part_002:391-410: poll() after the postings fetch of the finished branch.
afterFetchFinished(t, ob) ==
    /\ isSyncing' = FALSE
    /\ IF ~CancelledAfterFetch
       THEN \* postAnalyzeMyJobs(...).catch(() => {}); setInterval(..., 10000)
            /\ return(t, [ob EXCEPT !.analyze = TRUE, !.analysis = Pending, !.made = TRUE],
                      "done")
            /\ interval' = [interval EXCEPT ![t] = [live |-> TRUE, scoreRefreshes |-> 0,
                                                    delay |-> SCORE_REFRESH_MS]]
            /\ scoreRefreshIntervalRef' = t
       ELSE /\ return(t, ob, "done")
            /\ UNCHANGED <<interval, scoreRefreshIntervalRef>>

\* part_002:385-386: poll() after the postings fetch of the failed branch.
afterFetchFailedFallsThrough(t, ob) == afterFetchFinished(t, ob)
afterFetchFailed(t, ob) ==
    /\ isSyncing' = FALSE
    /\ return(t, ob, "error_failed")
    /\ UNCHANGED <<interval, scoreRefreshIntervalRef>>

\* part_002:377-425: the status request settles. r is the response, the body of
\* a 200 is the register's state at that moment.
statusResolved(t, r) ==
    /\ trig[t].pc = "awaitStatus"
    /\ IF getScrapeStatusThrows(r)
       THEN \* poll() was called without await (part_002:432): the rejection
            \* reaches no catch block and no state is set.
            /\ return(t, obs[t], "unhandled")
            /\ UNCHANGED <<isSyncing, relevantError, interval, scoreRefreshIntervalRef>>
       ELSE IF CancelledAfterStatus
       THEN /\ isSyncing' = FALSE
            /\ return(t, obs[t], "cancelled")
            /\ UNCHANGED <<relevantError, interval, scoreRefreshIntervalRef>>
       ELSE LET status == reg.state
                seen == [obs[t] EXCEPT !.idleRun = IF status = "idle" THEN @ + 1 ELSE 0]
                idleCount == nextIdleCount(status, trig[t].idleCount)
                fetching == [seen EXCEPT !.pollFetches = @ + 1]
            IN  CASE status = "failed" ->
                     /\ relevantError' = ErrFailed
                     /\ IF ~cancelledRef
                        THEN \* await fetchJobsFromDb(session.user.id)
                             /\ trig' = [trig EXCEPT ![t].pc = "fetchFailed"]
                             /\ obs' = [obs EXCEPT ![t] = fetching]
                             /\ UNCHANGED <<isSyncing, interval, scoreRefreshIntervalRef>>
                        ELSE afterFetchFailed(t, seen)
                  [] status = "finished" ->
                     /\ relevantError' = relevantError
                     /\ IF ~cancelledRef
                        THEN \* await fetchJobsFromDb(session.user.id)
                             /\ trig' = [trig EXCEPT ![t].pc = "fetchFinished"]
                             /\ obs' = [obs EXCEPT ![t] = fetching]
                             /\ UNCHANGED <<isSyncing, interval, scoreRefreshIntervalRef>>
                        ELSE afterFetchFinished(t, seen)
                  [] status = "idle" ->
                     IF IdleAnomaly(idleCount)
                     THEN /\ relevantError' = ErrReset
                          /\ isSyncing' = FALSE
                          /\ return(t, seen, "error_reset")
                          /\ UNCHANGED <<interval, scoreRefreshIntervalRef>>
                     ELSE \* await new Promise((r) => setTimeout(r, POLL_INTERVAL_MS))
                          /\ trig' = [trig EXCEPT ![t].idleCount = idleCount, ![t].pc = "sleep"]
                          /\ obs' = [obs EXCEPT ![t] = seen]
                          /\ UNCHANGED <<isSyncing, relevantError, interval,
                                         scoreRefreshIntervalRef>>
                  [] OTHER ->
                     /\ trig' = [trig EXCEPT
                                   ![t].idleCount = idleCount,
                                   ![t].broken = @ \/ obs[t].idleRun = IDLE_LIMIT - 1,
                                   ![t].pc = "sleep"]
                     /\ obs' = [obs EXCEPT ![t] = seen]
                     /\ UNCHANGED <<isSyncing, relevantError, interval, scoreRefreshIntervalRef>>
    /\ serve(getScrapeStatusRequest)
    /\ UNCHANGED <<hasResume, mounted, cancelledRef>>
    /\ UNCHANGED jobs
    /\ UNCHANGED otherSpecVars

\* part_002:384-386, 390-410: fetchJobsFromDb of the poll loop resolves.
fetchResolved(t) ==
    /\ jobs' = fetchJobsFromDb
    /\ \/ trig[t].pc = "fetchFailed" /\ afterFetchFailed(t, obs[t])
       \/ trig[t].pc = "fetchFinished" /\ afterFetchFinished(t, obs[t])
    /\ UNCHANGED <<serverVars, hasResume, mounted, relevantError, cancelledRef>>
    /\ UNCHANGED otherSpecVars

\* part_002:425-430: the inter-poll timer fires.
sleepResolved(t) ==
    /\ trig[t].pc = "sleep"
    /\ IF CancelledAfterSleep
       THEN /\ isSyncing' = FALSE
            /\ return(t, obs[t], "cancelled")
            /\ UNCHANGED relevantError
       ELSE pollIteration(t, trig[t], obs[t], isSyncing)
    /\ UNCHANGED <<serverVars, hasResume, mounted, cancelledRef,
                   scoreRefreshIntervalRef, interval>>
    /\ UNCHANGED jobs
    /\ UNCHANGED otherSpecVars

\* The outcomes of the analyze request that the model follows: accepted,
\* scorer not configured, and a request that does not get through.
AnalyzeReplies == {Http(202), Http(503), NetError}

\* part_002:394  .catch(() => {}): what relevantError is after the handler ran
\* on the error with the given message.
catchAnalyzeSurfaces(message) == message
catchAnalyze(message) == relevantError

\* part_002:394: the promise of postAnalyzeMyJobs(session.access_token) settles
\* with fetch outcome r; a rejection goes to the empty catch handler.
analyzeSettled(t, r) ==
    /\ obs[t].analysis = Pending
    /\ LET result == postAnalyzeMyJobs(r)
       IN  /\ obs' = [obs EXCEPT ![t].analysis = result]
           /\ relevantError' = IF result.settled = "rejected"
                                THEN catchAnalyze(result.message)
                                ELSE relevantError
    /\ UNCHANGED <<serverVars, hasResume, mounted, isSyncing, cancelledRef,
                   scoreRefreshIntervalRef, jobs, trig, interval>>
    /\ UNCHANGED otherSpecVars

\* clearInterval(scoreRefreshIntervalRef.current); scoreRefreshIntervalRef.current = null
clearRef(iv) ==
    IF scoreRefreshIntervalRef # NoInterval
    THEN [iv EXCEPT ![scoreRefreshIntervalRef].live = FALSE]
    ELSE iv

\* part_002:397-408: one callback of the interval made by invocation i.
scoreRefreshTick(i) ==
    /\ interval[i].live
    /\ interval[i].scoreRefreshes < MaxScoreRefreshes
    /\ LET n == interval[i].scoreRefreshes + 1
           counted == [interval EXCEPT ![i].scoreRefreshes = n]
       IN  IF CancelledAtRefresh \/ RefreshesExhausted(n)
           THEN /\ interval' = clearRef(counted)
                /\ scoreRefreshIntervalRef' = NoInterval
                /\ obs' = obs
                /\ jobs' = jobs
           ELSE \* await fetchJobsFromDb(session.user.id)
                /\ interval' = counted
                /\ obs' = [obs EXCEPT ![i].refetches = @ + 1]
                /\ jobs' = fetchJobsFromDb
                /\ UNCHANGED scoreRefreshIntervalRef
    /\ UNCHANGED <<serverVars, hasResume, mounted, isSyncing, relevantError,
                   cancelledRef, trig>>
    /\ UNCHANGED otherSpecVars

\* The invocations that are in their poll loop.
PollPcs == {"awaitStatus", "fetchFailed", "fetchFinished", "sleep"}
Polling(t) == trig[t].pc \in PollPcs

\* part_002:365, 372: time passes; Date.now() - start grows for every
\* invocation in its poll loop.
Tick ==
    /\ \E t \in Triggers : Polling(t) /\ trig[t].elapsed < MaxTicks * TickMs
    /\ trig' = [t \in Triggers |->
                 IF Polling(t) /\ trig[t].elapsed < MaxTicks * TickMs
                 THEN [trig[t] EXCEPT !.elapsed = @ + TickMs]
                 ELSE trig[t]]
    /\ UNCHANGED <<serverVars, compVars, interval, obs>>
    /\ UNCHANGED otherSpecVars

\* part_002:297-305: the cleanup of the mount effect. It sends nothing to the
\* backend.
unmountCancelsRun ==
    /\ mounted
    /\ mounted' = FALSE
    /\ cancelledRef' = TRUE
    /\ interval' = clearRef(interval)
    /\ scoreRefreshIntervalRef' = NoInterval
    /\ run' = 0
    /\ UNCHANGED <<reg, hasResume, isSyncing, relevantError, jobs, trig, obs, otherSpecVars>>
unmount ==
    /\ mounted
    /\ mounted' = FALSE
    /\ cancelledRef' = TRUE
    /\ interval' = clearRef(interval)
    /\ scoreRefreshIntervalRef' = NoInterval
    /\ UNCHANGED <<serverVars, hasResume, isSyncing, relevantError, trig, obs>>
    /\ UNCHANGED jobs
    /\ UNCHANGED otherSpecVars

\* ============================================================= specification

Init ==
    /\ reg = [state |-> "idle", started_at |-> NullTime, finished_at |-> NullTime]
    /\ run = 0
    /\ hasResume \in BOOLEAN
    /\ mounted = TRUE
    /\ isSyncing = FALSE
    /\ relevantError = ErrNone
    /\ cancelledRef = FALSE
    /\ scoreRefreshIntervalRef = NoInterval
    /\ jobs = initialJobs
    /\ trig = [t \in Triggers |-> NewTrig]
    /\ interval = [t \in Triggers |-> NewInterval]
    /\ obs = [t \in Triggers |-> NewObs]
    /\ call = NoCall
    /\ epoch = NoRuns
    /\ TrackAtRest
    /\ PipelineAtRest

\* The steps with this component as the user's only client.
SoloNext ==
    \/ \E t \in Triggers : StartScrape(t)
    \/ \E t \in Triggers : StartScrapeFails(t)
    \/ \E outcome \in {"finished", "failed"} : AggregatorComplete(outcome)
    \/ OrchestratorCrash
    \/ IdleReset
    \/ Tick
    \/ \E t \in Triggers : handleGetRelevantJobs(t)
    \/ \E t \in Triggers : getSessionResolved(t)
    \/ \E t \in Triggers : postScrapeResolved(t)
    \/ \E t \in Triggers : \E r \in {Http(200), Http(500), NetError} : statusResolved(t, r)
    \/ \E t \in Triggers : fetchResolved(t)
    \/ \E t \in Triggers : sleepResolved(t)
    \/ \E i \in Triggers : scoreRefreshTick(i)
    \/ \E t \in Triggers : \E r \in AnalyzeReplies : analyzeSettled(t, r)
    \/ unmount

Next ==
    \/ SoloNext
    \/ OtherStartScrape

Spec == Init /\ [][Next]_vars

SoloSpec == Init /\ [][SoloNext]_vars

\* spec.md 4.3: every adapter has its own timeout, so an Aggregator whose
\* Orchestrator is alive completes.
FairSpec ==
    Spec /\ WF_vars(\E outcome \in {"finished", "failed"} : AggregatorComplete(outcome))

\* ------------------------------------------------ the API client on its own

\* The status codes a fetch can resolve with.
HttpStatuses == 200..MaxStatus
AnalyzeResponses == {Http(code) : code \in HttpStatuses} \cup {NetError}

\* backendApi.ts:15-23: the call of postAnalyzeMyJobs settles.
postAnalyzeMyJobsSettles ==
    /\ call.result = Pending
    /\ call' = [call EXCEPT !.result = postAnalyzeMyJobs(call.response)]
    /\ UNCHANGED <<serverVars, clientVars, pipelineVars, epoch, trackVars>>

ApiInit ==
    /\ reg = [state |-> "idle", started_at |-> NullTime, finished_at |-> NullTime]
    /\ run = 0
    /\ hasResume = TRUE
    /\ mounted = TRUE
    /\ isSyncing = FALSE
    /\ relevantError = ErrNone
    /\ cancelledRef = FALSE
    /\ scoreRefreshIntervalRef = NoInterval
    /\ jobs = initialJobs
    /\ trig = [t \in Triggers |-> NewTrig]
    /\ interval = [t \in Triggers |-> NewInterval]
    /\ obs = [t \in Triggers |-> NewObs]
    /\ call \in {[response |-> r, result |-> Pending] : r \in AnalyzeResponses}
    /\ epoch = NoRuns
    /\ TrackAtRest
    /\ PipelineAtRest

ApiNext == postAnalyzeMyJobsSettles

ApiSpec == ApiInit /\ [][ApiNext]_vars

\* ------------------------------------------------ the pipeline on its own

\* spec.md 4.3: the raw postings of adapter a, each with that source's
\* descriptive fields.
RawPostings(a) ==
    [i \in DOMAIN results[a].urls |-> [url |-> results[a].urls[i], descr |-> a]]

\* spec.md 4.3: the union of the raw postings of the successful adapters, in
\* the order in which the adapters returned.
RECURSIVE Collected(_)
Collected(order) ==
    IF order = << >> THEN << >>
    ELSE (IF results[Head(order)].kind = "ok" THEN RawPostings(Head(order)) ELSE << >>)
         \o Collected(Tail(order))

\* spec.md 6 upsert-by-(owner, source URL), spec.md 3: a new posting is created
\* on first sighting; a posting that exists gets the descriptive fields and
\* keeps status, applied_at and ai_analysis.
UpsertResetsTracking(st, owner, raw) ==
    IF Rows(st, owner, raw.url) = {}
    THEN Append(st, Posting(owner, raw.url, raw.descr))
    ELSE [i \in DOMAIN st |->
            IF i \in Rows(st, owner, raw.url) THEN Posting(owner, raw.url, raw.descr) ELSE st[i]]
Upsert(st, owner, raw) ==
    IF Rows(st, owner, raw.url) = {}
    THEN Append(st, Posting(owner, raw.url, raw.descr))
    ELSE [i \in DOMAIN st |->
            IF i \in Rows(st, owner, raw.url) THEN [st[i] EXCEPT !.descr = raw.descr] ELSE st[i]]

\* spec.md 4.3: persisting a sequence of raw postings, last write wins.
RECURSIVE Persist(_, _, _)
Persist(st, owner, raws) ==
    IF raws = << >> THEN st
    ELSE Persist(Upsert(st, owner, Head(raws)), owner, Tail(raws))

\* spec.md 4.2, 4.3: the aggregate outcome. all_failed when every adapter
\* failed or timed out, partial_or_full_success when at least one succeeded.
AggregateOutcomeNeedsPostings(res) ==
    IF \E a \in Adapters : res[a].kind = "ok" /\ res[a].urls # << >>
    THEN "partial_or_full_success" ELSE "all_failed"
AggregateOutcomeNeedsAll(res) ==
    IF \A a \in Adapters : res[a].kind = "ok"
    THEN "partial_or_full_success" ELSE "all_failed"
AggregateOutcome(res) ==
    IF \E a \in Adapters : res[a].kind = "ok"
    THEN "partial_or_full_success" ELSE "all_failed"

\* spec.md 4.2: the state the Orchestrator transitions to on completion.
CompletionStateAlwaysFinished(outcome) == "finished"
CompletionState(outcome) ==
    IF outcome = "all_failed" THEN "failed" ELSE "finished"

\* spec.md 4.2 start_scrape of the user: accepted when no run is in progress.
RunStart ==
    /\ runs < MaxRuns
    /\ TransitionAllowed(reg.state)
    /\ serve(StartScrapeRoute)
    /\ arrived' = << >>
    /\ runs' = runs + 1
    /\ UNCHANGED <<results, store, scoring, clientVars, apiVars, epoch, trackVars>>

\* spec.md 4.3: adapter a returns (its postings, its failure, or its timeout
\* fires), whatever the other adapters are doing.
AdapterReturns(a) ==
    /\ reg.state = "processing"
    /\ run > 0
    /\ \A i \in DOMAIN arrived : arrived[i] # a
    /\ arrived' = Append(arrived, a)
    /\ UNCHANGED <<serverVars, results, store, scoring, runs, clientVars, apiVars, epoch, trackVars>>

\* spec.md 4.4: the postings handed to the Scoring Dispatcher: those of this
\* run that lack ai_analysis.
Dispatched(st, raws) ==
    {u \in URLs : /\ \E i \in DOMAIN raws : raws[i].url = u
                  /\ \E i \in Rows(st, User, u) : st[i].ai_analysis = NoAnalysis}

\* spec.md 4.2: Aggregator completion. With at least one successful source
\* the postings are persisted and the run is finished, and the Scoring
\* Dispatcher is invoked; otherwise the run is failed and nothing is persisted.
AggregatorCompletes ==
    /\ reg.state = "processing"
    /\ run > 0
    /\ Len(arrived) = NumAdapters
    /\ LET outcome == AggregateOutcome(results)
           raws == Collected(arrived)
           persisted == IF outcome = "all_failed" THEN store ELSE Persist(store, User, raws)
       IN  /\ store' = persisted
           /\ reg' = [reg EXCEPT !.state = CompletionState(outcome), !.finished_at = WallClock]
           /\ scoring' = IF outcome = "all_failed" THEN scoring
                          ELSE [u \in URLs |->
                                  IF u \in Dispatched(persisted, raws) THEN Queued(0)
                                  ELSE scoring[u]]
    /\ run' = run - 1
    /\ UNCHANGED <<results, arrived, runs, clientVars, apiVars, epoch, trackVars>>

\* spec.md 4.4: the outcomes of one invocation of the scorer.
ScorerOutcomes == {"success", "transient failure", "not configured"}

\* spec.md 4.4: what a failed attempt leaves of the Dispatcher's work on the
\* posting for source URL u: not configured is terminal, a transient failure is
\* retried until the attempts are used up.
AfterFailureStopsAll(u, outcome) == [v \in URLs |-> Abandoned]
AfterFailure(u, outcome) ==
    [scoring EXCEPT ![u] =
        IF outcome = "not configured" \/ scoring[u].attempts + 1 >= MaxAttempts
        THEN Abandoned
        ELSE Queued(scoring[u].attempts + 1)]

\* spec.md 4.4: one attempt of the Scoring Dispatcher on the user's posting for
\* source URL u. Success upserts ai_analysis and touches nothing else.
ScoreAttempt(u, outcome) ==
    /\ scoring[u].state = "queued"
    /\ IF outcome = "success"
       THEN /\ store' = [i \in DOMAIN store |->
                           IF i \in Rows(store, User, u)
                           THEN [store[i] EXCEPT !.ai_analysis = Analysis] ELSE store[i]]
            /\ scoring' = [scoring EXCEPT ![u] = Scored]
       ELSE /\ store' = store
            /\ scoring' = AfterFailure(u, outcome)
    /\ UNCHANGED <<serverVars, results, arrived, runs, clientVars, apiVars, epoch, trackVars>>

\* spec.md 3: a user-facing action on the user's posting for source URL u (mark
\* applied): it writes status and applied_at.
UserAction(u) ==
    /\ \E i \in Rows(store, User, u) : store[i].status # "applied"
    /\ store' = [i \in DOMAIN store |->
                   IF i \in Rows(store, User, u)
                   THEN [store[i] EXCEPT !.status = "applied", !.applied_at = WallClock]
                   ELSE store[i]]
    /\ UNCHANGED <<serverVars, results, arrived, scoring, runs, clientVars, apiVars, epoch, trackVars>>

RunInit ==
    /\ reg = [state |-> "idle", started_at |-> NullTime, finished_at |-> NullTime]
    /\ run = 0
    /\ hasResume = TRUE
    /\ mounted = TRUE
    /\ isSyncing = FALSE
    /\ relevantError = ErrNone
    /\ cancelledRef = FALSE
    /\ scoreRefreshIntervalRef = NoInterval
    /\ jobs = initialJobs
    /\ trig = [t \in Triggers |-> NewTrig]
    /\ interval = [t \in Triggers |-> NewInterval]
    /\ obs = [t \in Triggers |-> NewObs]
    /\ call = NoCall
    /\ epoch = NoRuns
    /\ TrackAtRest
    /\ results \in [Adapters -> AdapterResults]
    /\ arrived = << >>
    /\ store \in PriorStores
    /\ scoring = [u \in URLs |-> NotQueued]
    /\ runs = 0

\* The runs of the Aggregator with the user's actions between them. The
\* Scoring Dispatcher is decoupled from the run (spec.md 5): ScoreSpec follows
\* its attempts.
RunNext ==
    \/ RunStart
    \/ \E a \in Adapters : AdapterReturns(a)
    \/ AggregatorCompletes
    \/ \E u \in URLs : UserAction(u)

RunSpec == RunInit /\ [][RunNext]_vars

ScoreNext ==
    \/ RunStart
    \/ \E a \in Adapters : AdapterReturns(a)
    \/ AggregatorCompletes
    \/ \E u \in URLs : \E outcome \in ScorerOutcomes : ScoreAttempt(u, outcome)

ScoreSpec == RunInit /\ [][ScoreNext]_vars

\* ------------------------------------------- the tracking actions on their own

\* The postings a page lists for the user: Jobs lists every posting of the user
\* (part_002:331-336), JobTracker those with a tracker status (part_002:85-95).
Listed(tbl, pg) ==
    {i \in DOMAIN tbl : /\ tbl[i].user_id = User
                         /\ pg = "JobTracker" => tbl[i].status \in STATUS_ORDER}

\* JobDisplay.tsx:26-28, 55-57, part_002:26-29: handler k starts on posting j
\* (for the tracker, with the status chosen in the select).
click(k, j, newStatus) ==
    /\ page = PageOf(k)
    /\ act[k].pc = "idle"
    /\ j \in DOMAIN view
    /\ k = "handleSaveClick" => view[j].status # "saved" /\ newStatus = "saved"
    /\ k = "handleDidApplyYes" => newStatus = "applied"
    /\ k = "handleStatusChange" => newStatus # view[j].status
    /\ act' = [act EXCEPT ![k] = [NoAct EXCEPT !.pc = "getSession", !.job = j,
                                               !.newStatus = newStatus]]
    /\ UNCHANGED <<table, page, view, clock>>
    /\ UNCHANGED <<serverVars, clientVars, apiVars, pipelineVars, epoch>>

\* JobDisplay.tsx:30-41, 59-69, part_002:31-38: getSession resolves with the
\* user signed in at that moment; without one the handler returns, otherwise
\* the update is sent.
sessionResolved(k, uid) ==
    /\ act[k].pc = "getSession"
    /\ act' = IF uid = NoUser
              THEN [act EXCEPT ![k] = NoAct]
              ELSE [act EXCEPT ![k].pc = "update", ![k].uid = uid, ![k].sent = clock]
    /\ UNCHANGED <<table, page, view, clock>>
    /\ UNCHANGED <<serverVars, clientVars, apiVars, pipelineVars, epoch>>

\* The update handler k sent.
Sent(k) ==
    CASE k = "handleDidApplyYes" -> handleDidApplyYesUpdate(act[k].sent)
      [] k = "handleSaveClick" -> handleSaveClickUpdate(act[k].sent)
      [] k = "handleStatusChange" -> handleStatusChangeUpdate(act[k].newStatus, act[k].sent)

\* JobDisplay.tsx:33-48, 62-76, part_002:34-42: the update settles, with or
\* without an error (an update that fails writes nothing), and the handler
\* runs to its end. Only handleSaveClick reads the error.
updateResolved(k, error) ==
    /\ act[k].pc = "update"
    /\ table' = IF error THEN table
                ELSE update(table, Sent(k), eqIdAndUser(act[k].job, act[k].uid))
    /\ view' =
         CASE k = "handleDidApplyYes" ->
                handleMarkApplied(view, [id |-> act[k].job, status |-> "applied",
                                         applied_at |-> clock])
           [] k = "handleSaveClick" ->
                IF ~error
                THEN handleMarkSaved(view, [id |-> act[k].job, status |-> "saved"])
                ELSE view
           [] k = "handleStatusChange" ->
                onStatusChange(view, act[k].job, act[k].newStatus)
    /\ act' = [act EXCEPT ![k] = NoAct]
    /\ UNCHANGED <<page, clock>>
    /\ UNCHANGED <<serverVars, clientVars, apiVars, pipelineVars, epoch>>

\* Time passes between two calls of new Date().
clockTick ==
    /\ clock < MaxClock
    /\ clock' = clock + 1
    /\ UNCHANGED <<table, page, view, act>>
    /\ UNCHANGED <<serverVars, clientVars, apiVars, pipelineVars, epoch>>

\* The table holds a posting of the user and one that is the user's or another
\* user's; the page has just loaded its list from the table.
TrackInit ==
    /\ reg = [state |-> "idle", started_at |-> NullTime, finished_at |-> NullTime]
    /\ run = 0
    /\ hasResume = TRUE
    /\ mounted = TRUE
    /\ isSyncing = FALSE
    /\ relevantError = ErrNone
    /\ cancelledRef = FALSE
    /\ scoreRefreshIntervalRef = NoInterval
    /\ jobs = initialJobs
    /\ trig = [t \in Triggers |-> NewTrig]
    /\ interval = [t \in Triggers |-> NewInterval]
    /\ obs = [t \in Triggers |-> NewObs]
    /\ call = NoCall
    /\ epoch = NoRuns
    /\ PipelineAtRest
    /\ \E owner \in [JobIds -> {User, OtherUser}] :
       \E status \in [JobIds -> {NullStatus, "saved"}] :
       \E analysis \in {NoAnalysis, Analysis} :
          /\ owner[1] = User
          /\ table = [i \in JobIds |-> Row(i, owner[i], status[i], analysis)]
    /\ page \in {"Jobs", "JobTracker"}
    /\ view = [i \in Listed(table, page) |->
                 [status |-> table[i].status, applied_at |-> table[i].applied_at]]
    /\ act = [k \in Handlers |-> NoAct]
    /\ clock = 1

TrackNext ==
    \/ \E k \in Handlers : \E j \in JobIds : \E s \in STATUS_ORDER : click(k, j, s)
    \/ \E k \in Handlers : \E uid \in {User, OtherUser, NoUser} : sessionResolved(k, uid)
    \/ \E k \in Handlers : \E error \in BOOLEAN : updateResolved(k, error)
    \/ clockTick

TrackSpec == TrackInit /\ [][TrackNext]_vars

\* ==================================================================== claims

\* The outcomes the Client Poller reports (spec.md 4.5, 7): done, error, timeout.
TerminalOutcomes == {"done", "error_failed", "error_reset", "timeout"}
Accepted(t) == obs[t].res = Http(202)

\* C1: at most one run is active at a time. While the register is processing
\* no start_scrape launches a run and every start-scrape response is a
\* rejection; a start_scrape handled on a register that is not processing is
\* accepted, launches exactly one run and leaves the register processing, so of
\* the calls racing on it exactly one is accepted.
C1_MutualExclusion ==
    /\ [](run <= 1 /\ (run = 1 => reg.state = "processing"))
    /\ [][reg.state = "processing" => run' <= run]_vars
    /\ [][\A t \in Triggers :
            (trig[t].res = NoResponse /\ trig'[t].res.kind = "http"
                                      /\ trig'[t].res.status \in {202, 409})
            => /\ trig'[t].res = Http(202) <=> reg.state # "processing"
               /\ trig'[t].res = Http(202) =>
                    run' = run + 1 /\ reg'.state = "processing"]_vars

\* C1 witness: two requests of the same user raced; one was accepted and the
\* other rejected while that run is still active.
C1_Witness ==
    /\ run = 1
    /\ \E t, u \in Triggers : trig[t].res = Http(202) /\ trig[u].res = Http(409)

\* C2 (as claimed): every invocation whose start-scrape was accepted and that
\* has ended on a mounted component ended in done, error or timeout, and
\* isSyncing is false once no invocation is polling any more.
C2_OneTerminalOutcome ==
    \A t \in Triggers :
        (mounted /\ Accepted(t) /\ trig[t].pc = "done")
        => /\ obs[t].outcome \in TerminalOutcomes
           /\ (\A u \in Triggers : ~Polling(u)) => ~isSyncing

\* C3: an iteration of poll that starts, uncancelled, at or after
\* POLL_TIMEOUT_MS since polling began ends the loop there with the timeout
\* message and isSyncing false; the timeout outcome is given only then; and
\* after it the invocation issues no status request and has no timer.
C3_TimeoutCeiling ==
    /\ [][\A t \in Triggers :
            (trig[t].pc = "sleep" /\ trig'[t].pc # "sleep" /\ ~cancelledRef
                                  /\ trig[t].elapsed >= POLL_TIMEOUT_MS)
            => /\ trig'[t].pc = "done"
               /\ obs'[t].outcome = "timeout"
               /\ relevantError' = ErrTimeout
               /\ ~isSyncing']_vars
    /\ [][\A t \in Triggers :
            (obs'[t].outcome = "timeout" /\ obs[t].outcome # "timeout")
            => trig[t].elapsed >= POLL_TIMEOUT_MS]_vars
    /\ [][\A t \in Triggers :
            obs[t].outcome = "timeout"
            => trig'[t].pc = "done" /\ obs'[t] = obs[t] /\ ~interval'[t].live]_vars

\* C3 witness: the register is still processing and the loop has ended by
\* timeout.
C3_Witness ==
    \E t \in Triggers :
        /\ obs[t].outcome = "timeout"
        /\ reg.state = "processing"
        /\ relevantError = ErrTimeout
        /\ ~isSyncing

\* C4: the third consecutive idle sample that poll handles ends the loop at
\* that sample with the 'status was reset' error and isSyncing false, and an
\* invocation that has ended issues no further status request.
C4_IdleAnomaly ==
    /\ [](\A t \in Triggers :
            obs[t].idleRun >= IDLE_LIMIT
            => trig[t].pc = "done" /\ obs[t].outcome = "error_reset")
    /\ [][\A t \in Triggers :
            (obs'[t].idleRun >= IDLE_LIMIT /\ obs[t].idleRun < IDLE_LIMIT)
            => relevantError' = ErrReset /\ ~isSyncing']_vars
    /\ [][\A t \in Triggers : trig[t].pc = "done" => trig'[t].pc = "done"]_vars

\* C4 witness: an accepted invocation ended on its third idle sample.
C4_Witness ==
    \E t \in Triggers :
        /\ Accepted(t)
        /\ obs[t].idleRun = IDLE_LIMIT
        /\ obs[t].outcome = "error_reset"
        /\ relevantError = ErrReset

\* C5: in every step taken while cancelledRef is set, no invocation issues a
\* status request, starts a postings fetch (from poll or from its interval),
\* sends the analyze request or creates an interval.
C5_NoWorkAfterCancel ==
    [][cancelledRef =>
        \A t \in Triggers :
            /\ trig'[t].pc = "awaitStatus" => trig[t].pc = "awaitStatus"
            /\ trig'[t].pc \in {"fetchFailed", "fetchFinished"} => trig'[t].pc = trig[t].pc
            /\ obs'[t].pollFetches = obs[t].pollFetches
            /\ obs'[t].refetches = obs[t].refetches
            /\ obs'[t].analyze = obs[t].analyze
            /\ obs'[t].made = obs[t].made
            /\ interval'[t].live => interval[t].live]_vars

\* C5 witness: the component was unmounted at each kind of suspension point and
\* the invocation then ended as cancelled.
C5_Witness ==
    /\ cancelledRef
    /\ \E t \in Triggers : obs[t].outcome = "cancelled" /\ obs[t].polled

\* C6 (as claimed): an interval that has run its callback more than
\* SCORE_REFRESH_LIMIT times has been cleared, and once the component is
\* unmounted no interval remains scheduled.
C6_IntervalsCleared ==
    \A i \in Triggers :
        /\ interval[i].scoreRefreshes > SCORE_REFRESH_LIMIT => ~interval[i].live
        /\ ~mounted => ~interval[i].live

\* C7: a finished sample (handled uncancelled) stops the polling of that
\* invocation and starts its one postings fetch; the invocation's interval
\* exists only after that fetch has resolved, fires every SCORE_REFRESH_MS and
\* re-fetches at most SCORE_REFRESH_LIMIT times.
C7_FinishedBranch ==
    /\ [][\A t \in Triggers :
            (trig[t].pc = "awaitStatus" /\ trig'[t].pc # "awaitStatus"
               /\ reg.state = "finished" /\ ~cancelledRef /\ obs'[t].outcome # "unhandled")
            => /\ trig'[t].pc = "fetchFinished"
               /\ obs'[t].pollFetches = 1
               /\ obs'[t].refetches = 0
               /\ ~interval'[t].live]_vars
    /\ [][\A t \in Triggers :
            trig[t].pc = "fetchFinished"
            => /\ trig'[t].pc \in {"fetchFinished", "done"}
               /\ trig'[t].pc = "done" => obs'[t].outcome = "done"]_vars
    /\ [][\A t \in Triggers : trig[t].pc = "done" => trig'[t].pc = "done"]_vars
    /\ [](\A t \in Triggers :
            /\ obs[t].outcome = "done" => obs[t].pollFetches = 1
            /\ obs[t].refetches <= SCORE_REFRESH_LIMIT
            /\ obs[t].refetches <= interval[t].scoreRefreshes
            /\ (interval[t].live \/ obs[t].refetches > 0)
               => /\ obs[t].outcome = "done"
                  /\ interval[t].delay = SCORE_REFRESH_MS)

\* C7 witness: an invocation that sampled finished fetched once, re-fetched six
\* times and its interval is cleared.
C7_Witness ==
    \E t \in Triggers :
        /\ obs[t].outcome = "done"
        /\ obs[t].pollFetches = 1
        /\ obs[t].refetches = SCORE_REFRESH_LIMIT
        /\ ~interval[t].live

\* C8: a failed sample (handled uncancelled) stops the polling of that
\* invocation, sets the scraping-failed error and starts the postings fetch;
\* when the fetch resolves isSyncing is set to false and the invocation ends;
\* it never sends the analyze request and never creates an interval.
C8_FailedBranch ==
    /\ [][\A t \in Triggers :
            (trig[t].pc = "awaitStatus" /\ trig'[t].pc # "awaitStatus"
               /\ reg.state = "failed" /\ ~cancelledRef /\ obs'[t].outcome # "unhandled")
            => /\ trig'[t].pc = "fetchFailed"
               /\ relevantError' = ErrFailed
               /\ obs'[t].pollFetches = 1]_vars
    /\ [][\A t \in Triggers :
            (trig[t].pc = "fetchFailed" /\ trig'[t].pc # "fetchFailed")
            => /\ trig'[t].pc = "done"
               /\ obs'[t].outcome = "error_failed"
               /\ ~isSyncing']_vars
    /\ [](\A t \in Triggers :
            (trig[t].pc = "fetchFailed" \/ obs[t].outcome = "error_failed")
            => /\ obs[t].pollFetches = 1
               /\ ~obs[t].analyze
               /\ ~obs[t].made
               /\ ~interval[t].live
               /\ obs[t].refetches = 0)

\* C8 witness: an invocation ended on a failed sample with the error shown.
C8_Witness ==
    \E t \in Triggers :
        /\ obs[t].outcome = "error_failed"
        /\ obs[t].pollFetches = 1
        /\ relevantError = ErrFailed
        /\ ~isSyncing

\* A response to start-scrape that is a rejection: a network failure or any
\* status other than 202.
RejectedResponse(r) == r.kind = "neterr" \/ r.status # 202

\* C9: when the start-scrape request of an invocation is rejected, the
\* invocation ends there with isSyncing false and (unless the component is
\* unmounted) the error shown, and it never issues a status request.
C9_RejectedNeverPolls ==
    /\ [][\A t \in Triggers :
            (trig[t].pc = "postScrape" /\ trig'[t].pc # "postScrape"
               /\ RejectedResponse(trig[t].res))
            => /\ trig'[t].pc = "done"
               /\ obs'[t].outcome = "rejected"
               /\ ~obs'[t].polled
               /\ ~isSyncing'
               /\ ~cancelledRef => relevantError' = ErrThrown]_vars
    /\ [](\A t \in Triggers :
            (obs[t].res # NoResponse /\ RejectedResponse(obs[t].res))
            => trig[t].pc = "done" /\ ~obs[t].polled /\ obs[t].outcome = "rejected")

\* C9 witness: a start-scrape answered with the conflict signal while a run is
\* in progress ended the invocation with the error shown.
C9_Witness ==
    \E t \in Triggers :
        /\ obs[t].res = Http(409)
        /\ obs[t].outcome = "rejected"
        /\ relevantError = ErrThrown
        /\ reg.state = "processing"

\* A step of the Client Poller: of poll, of the interval callback, of the
\* unmount cleanup, or of the handler around them.
PollerStep ==
    \/ \E t \in Triggers : handleGetRelevantJobs(t)
    \/ \E t \in Triggers : getSessionResolved(t)
    \/ \E t \in Triggers : postScrapeResolved(t)
    \/ \E t \in Triggers : \E r \in {Http(200), Http(500), NetError} : statusResolved(t, r)
    \/ \E t \in Triggers : fetchResolved(t)
    \/ \E t \in Triggers : sleepResolved(t)
    \/ \E i \in Triggers : scoreRefreshTick(i)
    \/ \E t \in Triggers : \E r \in AnalyzeReplies : analyzeSettled(t, r)
    \/ unmount

\* C10: no step of the Client Poller changes the register (state, started_at,
\* finished_at); the register changes only in a step of the Orchestrator, and
\* of the client's requests only the start-scrape request is such a step.
C10_PollerOnlyReads ==
    /\ [][PollerStep => reg' = reg]_vars
    /\ [][reg' # reg =>
            \/ \E t \in Triggers : StartScrape(t)
            \/ OtherStartScrape
            \/ \E outcome \in {"finished", "failed"} : AggregatorComplete(outcome)
            \/ IdleReset]_vars

\* C10 witness: the poller has sampled a register that holds a run's stamps
\* and sleeps before its next sample.
C10_Witness ==
    \E t \in Triggers :
        /\ trig[t].pc = "sleep"
        /\ obs[t].polled
        /\ reg.state = "processing"
        /\ reg.started_at # NullTime

\* C11: postAnalyzeMyJobs resolves only on a 202 response; on 503 it rejects
\* with the 'AI analysis not configured.' error, and on every other status that
\* is not 202 (400, 404, ...) it rejects with an error whose message differs
\* from that one.
C11_AnalyzeErrors ==
    (call.response # NoResponse /\ call.result # Pending)
    => /\ call.result.settled = "resolved" <=> call.response = Http(202)
       /\ call.response = Http(503) => call.result = Rejected(AnalysisNotConfigured)
       /\ (call.response.kind = "http" /\ call.response.status \notin {202, 503})
          => /\ call.result.settled = "rejected"
             /\ call.result.message # AnalysisNotConfigured

\* C11 witness: a call answered 404 (not found) has settled, rejected with the
\* message the code formats for it.
C11_Witness ==
    /\ call.response = Http(404)
    /\ call.result = Rejected("Analyze jobs: 404")

\* C12: when the analyze call made after a finished sample is rejected (scorer
\* not configured, or any other failure), the step changes nothing of the
\* component: the invocation stays ended as done, relevantError, isSyncing and
\* the displayed postings stay, and the interval with its count stays; and a
\* later callback of that interval, uncancelled and within its limit, still
\* re-fetches the postings.
C12_DispatchFailureSwallowed ==
    /\ [][\A t \in Triggers :
            (obs[t].analysis = Pending /\ obs'[t].analysis.settled = "rejected")
            => /\ obs[t].outcome = "done" /\ obs'[t].outcome = "done"
               /\ relevantError' = relevantError
               /\ isSyncing' = isSyncing
               /\ jobs' = jobs /\ jobs = fetchJobsFromDb
               /\ interval' = interval
               /\ scoreRefreshIntervalRef' = scoreRefreshIntervalRef
               /\ trig' = trig]_vars
    /\ [][\A t \in Triggers :
            (obs[t].analysis.settled = "rejected"
               /\ interval'[t].scoreRefreshes = interval[t].scoreRefreshes + 1
               /\ interval'[t].scoreRefreshes <= SCORE_REFRESH_LIMIT
               /\ ~cancelledRef)
            => /\ obs'[t].refetches = obs[t].refetches + 1
               /\ jobs' = fetchJobsFromDb
               /\ relevantError' = relevantError]_vars

\* C12 witness: the analyze call was rejected as not configured before the
\* first re-fetch; the invocation is done, no error is shown, the fetched
\* postings are displayed and the interval is still scheduled.
C12_Witness ==
    \E t \in Triggers :
        /\ obs[t].analysis = Rejected(AnalysisNotConfigured)
        /\ obs[t].outcome = "done"
        /\ relevantError = ErrNone
        /\ jobs = fetchJobsFromDb
        /\ interval[t].live
        /\ obs[t].refetches = 0

\* C13: in every reachable state the register holds exactly one of idle,
\* processing, finished, failed; processing implies started_at set and
\* finished_at null; finished or failed implies finished_at set. This covers
\* the runs that start from finished or failed.
C13_StatusInvariant ==
    /\ reg.state \in States
    /\ Cardinality({s \in States : reg.state = s}) = 1
    /\ reg.state = "processing"
       => reg.started_at # NullTime /\ reg.finished_at = NullTime
    /\ reg.state \in {"finished", "failed"} => reg.finished_at # NullTime

\* C13 witness: a run is in progress that was started after the poller had
\* sampled the end (finished or failed) of an earlier run.
C13_Witness ==
    /\ reg = StartedStatus
    /\ run = 1
    /\ \E t \in Triggers : obs[t].outcome \in {"done", "error_failed"}

\* The step in which the Orchestrator ends a run.
RunCompletes == reg.state = "processing" /\ reg'.state # "processing"
\* Every adapter failed or timed out; at least one adapter succeeded.
AllFailed(res) == \A a \in Adapters : res[a].kind \in {"failure", "timeout"}
SomeSucceeded(res) == \E a \in Adapters : res[a].kind = "ok"

OneSucceeds(a, n) ==
    /\ results[a].kind = "ok"
    /\ Len(results[a].urls) = n
    /\ \A i \in DOMAIN results[a].urls : Rows(store, User, results[a].urls[i]) = {}
    /\ \A b \in Adapters \ {a} : results[b] = Timeout

\* C15: when one adapter succeeds with N postings (distinct source URLs, none
\* persisted before) and all the others time out, the run completes as
\* finished, the rows persisted before are as they were and exactly N rows are
\* added for the user, one per posting of the successful adapter.
C15_PartialTolerance ==
    [][\A a \in Adapters : \A n \in 0..MaxUrls :
         (RunCompletes /\ OneSucceeds(a, n))
         => /\ reg'.state = "finished"
            /\ Len(store') = Len(store) + n
            /\ SubSeq(store', 1, Len(store)) = store
            /\ Cardinality(RowsOf(store', User)) = Cardinality(RowsOf(store, User)) + n
            /\ \A i \in DOMAIN results[a].urls :
                 \E j \in RowsOf(store', User) :
                    /\ Rows(store', User, results[a].urls[i]) = {j}
                    /\ store'[j].descr = a]_vars

\* C15 witness: the first run has finished with the MaxUrls postings of its one
\* successful adapter persisted, the two other adapters having timed out.
C15_Witness ==
    /\ runs = 1
    /\ reg.state = "finished"
    /\ \E a \in Adapters :
         /\ Len(results[a].urls) = MaxUrls
         /\ \A b \in Adapters \ {a} : results[b] = Timeout
         /\ Cardinality({i \in RowsOf(store, User) : store[i].descr = a}) = MaxUrls
    /\ Len(store) = MaxUrls

\* C16: when all adapters fail (or time out) the run completes as failed with
\* finished_at set, and the persisted postings are exactly those from before.
C16_TotalFailure ==
    [][(RunCompletes /\ AllFailed(results))
        => /\ reg'.state = "failed"
           /\ reg'.finished_at # NullTime
           /\ store' = store]_vars

\* C16 witness: a run over a store that held postings has failed; the
\* postings are still there.
C16_Witness ==
    /\ reg.state = "failed"
    /\ reg.finished_at # NullTime
    /\ \E a, b \in Adapters : results[a] = Failure /\ results[b] = Timeout
    /\ store \in PriorStores
    /\ store # << >>

\* The descriptive fields last written for source URL u in a sequence of raw
\* postings that holds u.
LastWrite(raws, u) ==
    LET last == CHOOSE i \in DOMAIN raws :
                   /\ raws[i].url = u
                   /\ \A j \in DOMAIN raws : raws[j].url = u => j <= i
    IN  raws[last].descr

\* C17: the store never holds two postings with the same (owner, source URL),
\* whatever the number of runs with the same adapter results; a completing run
\* leaves every existing row in place with its owner, source URL, status and
\* applied_at (also those the user changed since the run before), and gives the
\* user's rows for the URLs it collected the descriptive fields it collected.
C17_IdempotentUpsert ==
    /\ [](\A i, j \in DOMAIN store :
            (store[i].owner = store[j].owner /\ store[i].url = store[j].url) => i = j)
    /\ [][RunCompletes =>
            /\ Len(store') >= Len(store)
            /\ \A i \in DOMAIN store :
                 /\ store'[i].owner = store[i].owner
                 /\ store'[i].url = store[i].url
                 /\ store'[i].status = store[i].status
                 /\ store'[i].applied_at = store[i].applied_at
            /\ reg'.state = "finished" =>
                 \A k \in DOMAIN Collected(arrived) :
                    \A i \in Rows(store', User, Collected(arrived)[k].url) :
                       store'[i].descr = LastWrite(Collected(arrived), store'[i].url)]_vars

\* C17 witness: the second run with the same results has finished; a posting
\* the first run created was marked applied by the user and is still applied,
\* and the posting persisted before the first run has new descriptive fields.
C17_Witness ==
    /\ runs = MaxRuns
    /\ reg.state = "finished"
    /\ Len(store) = MaxUrls + 1
    /\ \E i \in Rows(store, User, MaxUrls) :
         store[i].status = "applied" /\ store[i].applied_at # NullTime
    /\ \E i \in Rows(store, User, 1) :
         store[i].status = "saved" /\ store[i].descr # OldDescription

\* C18: an attempt of the Scoring Dispatcher never changes the register; a
\* failed attempt on one posting (transient, not configured, or the last of its
\* retries) changes nothing of the store and nothing of the Dispatcher's work
\* on any other posting; and every posting that is queued can be scored.
C18_ScoringIsolation ==
    /\ [][(\E u \in URLs : \E outcome \in ScorerOutcomes : ScoreAttempt(u, outcome))
           => reg' = reg /\ run' = run]_vars
    /\ [][\A u \in URLs : \A outcome \in ScorerOutcomes \ {"success"} :
            ScoreAttempt(u, outcome)
            => /\ store' = store
               /\ \A v \in URLs \ {u} : scoring'[v] = scoring[v]]_vars
    /\ [](\A v \in URLs :
            scoring[v].state = "queued" => ENABLED ScoreAttempt(v, "success"))

\* C18 witness: of two postings of a finished run one was abandoned unscored
\* and the other has its analysis.
C18_Witness ==
    /\ reg.state = "finished"
    /\ \E u, v \in URLs :
         /\ scoring[u] = Abandoned
         /\ scoring[v] = Scored
         /\ \E i \in Rows(store, User, u) : store[i].ai_analysis = NoAnalysis
         /\ \E i \in Rows(store, User, v) : store[i].ai_analysis = Analysis

\* The Orchestrator died mid-run: the register is processing and no run is
\* alive.
Crashed == reg.state = "processing" /\ run = 0
\* An invocation that is between two samples of the register.
Sampling(t) == trig[t].pc \in {"awaitStatus", "sleep"}

\* C19 (as claimed): after a crash and as long as there is no manual reset, the
\* register stays processing, every start-scrape response is a rejection, and an
\* invocation that is sampling the register ends only by timeout or by
\* cancellation.
C19_CrashedRunBlocks ==
    /\ [][(Crashed /\ ~IdleReset) => (reg' = reg /\ run' = 0)]_vars
    /\ [][Crashed =>
            \A t \in Triggers :
               (trig[t].res = NoResponse /\ trig'[t].res.kind = "http"
                                         /\ trig'[t].res.status \in {202, 409})
               => trig'[t].res = Http(409)]_vars
    /\ [][(Crashed /\ ~IdleReset) =>
            \A t \in Triggers :
               (Sampling(t) /\ trig'[t].pc = "done")
               => obs'[t].outcome \in {"timeout", "cancelled"}]_vars

\* A step in which the poller gives up: the component is unmounted, or an
\* invocation ends as cancelled or by timeout.
PollerGivesUp ==
    \/ mounted /\ ~mounted'
    \/ \E t \in Triggers :
         /\ obs[t].outcome = "none"
         /\ obs'[t].outcome \in {"cancelled", "timeout"}

\* C20: a step in which the poller gives up changes neither the register nor
\* the run; a run ends only by completing with finished or failed and
\* finished_at stamped, by a crash of the Orchestrator, or by a manual reset;
\* and every run that is alive leads to one of these, whatever the poller does.
C20_AbandonedRunCompletes ==
    /\ [][PollerGivesUp => (reg' = reg /\ run' = run)]_vars
    /\ [][(run = 1 /\ run' = 0) =>
            \/ reg'.state \in {"finished", "failed"} /\ reg'.finished_at # NullTime
            \/ OrchestratorCrash
            \/ IdleReset]_vars
    /\ (run = 1) ~> (reg.state \in {"finished", "failed"} \/ Crashed \/ reg.state = "idle")

\* C20 witness: an invocation whose start-scrape was accepted has ended as
\* cancelled or by timeout, the component is unmounted, and the run is still
\* alive.
C20_Witness ==
    /\ ~mounted
    /\ run = 1
    /\ reg.state = "processing"
    /\ \E t \in Triggers :
         Accepted(t) /\ obs[t].polled /\ obs[t].outcome \in {"cancelled", "timeout"}

\* The status sample of invocation t is being handled in this step and it is
\* neither failed nor finished: poll goes on to the inter-poll sleep.
SampledOn(t) == trig[t].pc = "awaitStatus" /\ trig'[t].pc = "sleep"

\* C22: while the loop goes on, idleCount is the number of consecutive idle
\* samples poll has just handled: a sample that is not idle (processing) sets it to zero, and the
\* loop ends with the 'status was reset' error only on a sample that is the
\* last of IDLE_LIMIT idle samples in a row.
C22_ConsecutiveIdleOnly ==
    /\ [](\A t \in Triggers :
            trig[t].pc \in {"awaitStatus", "sleep"} => trig[t].idleCount = obs[t].idleRun)
    /\ [][\A t \in Triggers :
            (SampledOn(t) /\ reg.state = "processing") => trig'[t].idleCount = 0]_vars
    /\ [][\A t \in Triggers :
            (obs'[t].outcome = "error_reset" /\ obs[t].outcome # "error_reset")
            => /\ reg.state = "idle"
               /\ obs[t].idleRun = IDLE_LIMIT - 1
               /\ obs'[t].idleRun = IDLE_LIMIT]_vars

\* C22 witness: after idle, idle, processing the loop has sampled idle, idle
\* again and is still polling, with no error shown.
C22_Witness ==
    \E t \in Triggers :
        /\ trig[t].broken
        /\ obs[t].idleRun = IDLE_LIMIT - 1
        /\ trig[t].idleCount = IDLE_LIMIT - 1
        /\ Polling(t)
        /\ relevantError = ErrNone

\* C23: in an iteration of poll that starts, uncancelled, at or after
\* POLL_TIMEOUT_MS the loop ends with the timeout outcome and nothing is
\* sampled or fetched, whatever state the register is in; and a status request
\* is issued only at an elapsed time below POLL_TIMEOUT_MS.
C23_TimeoutBeforeSample ==
    /\ [][\A t \in Triggers :
            (trig[t].pc = "sleep" /\ trig'[t].pc # "sleep" /\ ~cancelledRef
                                  /\ trig[t].elapsed >= POLL_TIMEOUT_MS)
            => /\ obs'[t].outcome = "timeout"
               /\ trig'[t].pc = "done"
               /\ obs'[t].pollFetches = obs[t].pollFetches
               /\ obs'[t].idleRun = obs[t].idleRun
               /\ jobs' = jobs
               /\ reg' = reg]_vars
    /\ [][\A t \in Triggers :
            (trig'[t].pc = "awaitStatus" /\ trig[t].pc # "awaitStatus")
            => trig[t].elapsed < POLL_TIMEOUT_MS]_vars

\* C23 witness: the loop ended by timeout without ever handling a terminal
\* sample, and the register is finished or failed.
C23_Witness ==
    \E t \in Triggers :
        /\ obs[t].outcome = "timeout"
        /\ obs[t].pollFetches = 0
        /\ reg.state \in {"finished", "failed"}
        /\ jobs = initialJobs
        /\ relevantError = ErrTimeout

\* C24: at most one invocation of handleGetRelevantJobs is in its poll loop,
\* and isSyncing is true whenever one is.
C24_SinglePollLoop ==
    /\ Cardinality({t \in Triggers : Polling(t)}) <= 1
    /\ (\E t \in Triggers : Polling(t)) => isSyncing

\* Invocation t handles a finished or failed sample in this step.
SamplesTerminal(t) ==
    /\ trig[t].pc = "awaitStatus"
    /\ trig'[t].pc \in {"fetchFailed", "fetchFinished"}

\* C25: with this component as the user's only client, the finished or failed
\* state an invocation samples was written by the run that the invocation's
\* own start-scrape launched.
C25_OwnRunSampled ==
    [][\A t \in Triggers : SamplesTerminal(t) => epoch.serial = epoch.of[t]]_vars

\* Handler k's update settles in this step.
Settles(k) == act[k].pc = "update" /\ act'[k].pc = "idle"

\* C21: a step of a tracking action changes no column of a row other than
\* status, applied_at and updated_at, and changes a row only when it is the
\* posting the handler acted on and belongs to the user signed in.
C21_TrackingFrame ==
    [][\A i \in JobIds :
         /\ table'[i].id = table[i].id
         /\ table'[i].user_id = table[i].user_id
         /\ table'[i].title = table[i].title
         /\ table'[i].ai_analysis = table[i].ai_analysis
         /\ table'[i] # table[i]
            => \E k \in Handlers : /\ Settles(k)
                                   /\ act[k].job = i
                                   /\ act[k].uid = table[i].user_id]_vars

\* C21 witness: the user's scored posting has been marked applied, with
\* applied_at and updated_at stamped and ai_analysis kept, while a posting of
\* another user is untouched.
C21_Witness ==
    /\ table[1].status = "applied"
    /\ table[1].applied_at # NoTime
    /\ table[1].updated_at # NoTime
    /\ table[1].ai_analysis = Analysis
    /\ table[2] = Row(2, OtherUser, "saved", Analysis)

\* C26: when a tracking handler has run to its end, the page shows for the
\* posting the status that is stored (and on the Jobs page the stored
\* applied_at), also when the update returned an error.
C26_ViewMatchesStore ==
    [][\A k \in Handlers :
         Settles(k) =>
            LET j == act[k].job
            IN  /\ view'[j].status = table'[j].status
                /\ page = "Jobs" => view'[j].applied_at = table'[j].applied_at]_vars

====
